---------------------------- MODULE Spec2Model ----------------------------
(***************************************************************************)
(* Model of src/generator/generators.cpp: the figure generators            *)
(* (triangle, rectangle, box, cone, cylinder, sphere, Bezier patches),     *)
(* the text writer they share and the reader gen_model_read.               *)
(*                                                                         *)
(* One behaviour is one call gen_<fig>_write(outf, ...) followed by one    *)
(* call gen_model_read on the file that call left behind.  Every loop of   *)
(* the source is stepped one test / one body at a time; the loop counters  *)
(* are `unsigned` and wrap at 2^Width.                                     *)
(*                                                                         *)
(* Numbers.  A float is a tuple <<num, den, fn, a, b>> that stands for     *)
(*     (num / den) * fn(a, b)                                              *)
(* with fn = 0 for the constant 1, so that <<num, den, 0, 0, 0>> is the    *)
(* rational num/den.  Rectangle, box, cone and cylinder arithmetic is done *)
(* in fixed point with den = Unit (products and quotients truncate, as in  *)
(* FMul and FDiv); sin and cos are kept as the symbolic factor fn(a, b).   *)
(* Floating-point rounding itself is not modelled.                         *)
(***************************************************************************)
EXTENDS Integers, Sequences, FiniteSets, TLC

VARIABLES call,      \* the arguments of the gen_<fig>_write call
          pc,        \* position in the code
          out,       \* outf: the fprintf calls that wrote their line
          room,      \* lines outf still accepts; fprintf fails silently at 0
          i, j,      \* the loop counters of the running generator
          k,         \* box: number of the face; bezier: number of the patch
          rect,      \* argument of the running gen_rectangle_write_intern
          passed,    \* history: rectangles handed to gen_rectangle_write_intern
          verts,     \* sphere: std::vector verts
          normals,   \* sphere: std::vector normals
          cps,       \* bezier: control points read
          patches,   \* bezier: patches read
          MPM,       \* bezier: the matrix of the running patch
          oob,       \* history: a vector was read at an index >= its size
          rpos,      \* gen_model_read: lines of the file consumed
          vec,       \* gen_model_read: *vec
          normv      \* gen_model_read: *norm

vars == <<call, pc, out, room, i, j, k, rect, passed, verts, normals,
          cps, patches, MPM, oob, rpos, vec, normv>>

-----------------------------------------------------------------------------
(* Bounds of the model.                                                    *)

\* bits of `unsigned` in the model
Width == 5
\* largest division count of a rectangle or box call
MaxDivs == 2
\* largest half-extent of a box
MaxDim == 2
\* largest slice count
MaxSlices == 4
\* largest stack count
MaxStacks == 3
\* largest tessellation of a Bezier call
MaxTess == 1

UIntRange == 2 ^ Width
MaxUInt == UIntRange - 1
\* unsigned arithmetic
Wrap(x) == x % UIntRange

\* fixed-point one: divisible by every divisor the bounded calls use
Unit == 16 * 9 * 5
\* lines the output device accepts when it does not fill up
DiskRoom == 1000 * 1000
\* elements a std::vector can hold before push_back throws std::bad_alloc
MemRoom == UIntRange * UIntRange

-----------------------------------------------------------------------------
(* Floats.                                                                 *)

Abs(x) == IF x < 0 THEN -x ELSE x
Min(a, b) == IF a < b THEN a ELSE b

\* the fixed-point float with mantissa m
Fx(m) == <<m, Unit, 0, 0, 0>>
\* the float (float) n of an unsigned n
FromUInt(n) == n * Unit
\* the mantissa that stands for +Inf (x / 0.0f; no code path of the model
\* writes it out or computes with it)
Inf == 1000 * 1000 * 1000
\* a * b and a / b on mantissas
FMul(a, b) == (a * b) \div Unit
FDiv(a, b) == IF b = 0 THEN Inf ELSE (a * Unit) \div b
\* sqrt on mantissas: the largest r in lo..hi with r * r <= s
RECURSIVE FSqrt(_, _, _)
FSqrt(s, lo, hi) ==
    IF lo >= hi THEN lo
    ELSE LET mid == (lo + hi + 1) \div 2
         IN  IF mid * mid <= s THEN FSqrt(s, mid, hi) ELSE FSqrt(s, lo, mid - 1)
\* amp * sin(I * a) and amp * cos(I * a), a = 2 pi / slices
SinTimes(amp, I, slices) == <<amp, Unit, 1, I, slices>>
CosTimes(amp, I, slices) == <<amp, Unit, 2, I, slices>>
\* the coordinates of the sphere at lat = ii / stacks * pi and
\* lon = jj / slices * 2 pi: rad * cos(lon) * sin(lat), rad * cos(lat),
\* rad * sin(lon) * sin(lat)
SphX(rad, ii, jj) == <<rad, Unit, 3, ii, jj>>
SphY(rad, ii, jj) == <<rad, Unit, 4, ii, 0>>
SphZ(rad, ii, jj) == <<rad, Unit, 5, ii, jj>>
\* a float read from memory the program does not own
Indeterminate(g) == <<g, Unit, 9, 0, 0>>

-----------------------------------------------------------------------------
(* Constructors (generators.cpp, "Utility functions").                     *)

Point(x, y, z) == <<x, y, z>>
Triangle(P1, P2, P3) == [P1 |-> P1, P2 |-> P2, P3 |-> P3]
Rectangle(P1, P2, P3, P4) == [P1 |-> P1, P2 |-> P2, P3 |-> P3, P4 |-> P4]
Box(top, bottom) == [top |-> top, bottom |-> bottom]

\* a point of fixed-point coordinates, from its three mantissas
FxPoint(x, y, z) == Point(Fx(x), Fx(y), Fx(z))
\* the three mantissas of a fixed-point point
Mant(A) == <<A[1][1], A[2][1], A[3][1]>>

gen_rectangle_from_wd(width, depth) ==
    LET w == width \div 2
        d == depth \div 2
    IN  Rectangle(FxPoint(-w, 0, -d), FxPoint(-w, 0, d),
                  FxPoint(w, 0, -d), FxPoint(w, 0, d))

gen_box_from_whd(width, height, depth) ==
    LET w == width \div 2
        h == height \div 2
        d == depth \div 2
    IN  Box(Rectangle(FxPoint(-w, h, -d), FxPoint(-w, h, d),
                      FxPoint(w, h, -d), FxPoint(w, h, d)),
            Rectangle(FxPoint(-w, -h, -d), FxPoint(-w, -h, d),
                      FxPoint(w, -h, -d), FxPoint(w, -h, d)))

-----------------------------------------------------------------------------
(* Vector math on fixed-point points.                                      *)

\* operator* (float s, struct Point A)
Scale(s, A) ==
    LET m == Mant(A)
    IN  FxPoint(FMul(m[1], s), FMul(m[2], s), FMul(m[3], s))

\* a + b on floats: exact on fixed-point values, and x + 0 = x
FAdd(a, b) ==
    CASE a[3] = 0 /\ b[3] = 0 -> Fx(a[1] + b[1])
      [] a[3] # 0 /\ b = Fx(0) -> a
      [] b[3] # 0 /\ a = Fx(0) -> b

\* operator+ (struct Point A, struct Point B)
Add(A, B) == Point(FAdd(A[1], B[1]), FAdd(A[2], B[2]), FAdd(A[3], B[3]))

\* norm of a fixed-point point
norm(v) ==
    LET m == Mant(v)
    IN  FSqrt(m[1] * m[1] + m[2] * m[2] + m[3] * m[3], 0,
              Abs(m[1]) + Abs(m[2]) + Abs(m[3]))

dist(A, B) == norm(Add(Scale(-Unit, A), B))

\* a point of the sphere (fn in 3..5) has its radius for norm, so that
\* 1 / norm(A) * A has the amplitude 1
normalize(A) ==
    IF A[1][3] = 0
    THEN Scale(FDiv(Unit, norm(A)), A)
    ELSE Point(<<FDiv(A[1][1], Abs(A[1][1])), Unit, A[1][3], A[1][4], A[1][5]>>,
               <<FDiv(A[2][1], Abs(A[2][1])), Unit, A[2][3], A[2][4], A[2][5]>>,
               <<FDiv(A[3][1], Abs(A[3][1])), Unit, A[3][3], A[3][4], A[3][5]>>)

-----------------------------------------------------------------------------
(* The writer.                                                             *)

\* "%f" prints 6 decimals: the first nd decimal digits of r / den (r < den)
\* and what is left of r after them
RECURSIVE Digits(_, _, _)
Digits(r, den, nd) ==
    IF nd = 0 THEN 0
    ELSE ((r * 10) \div den) * (10 ^ (nd - 1))
         + Digits((r * 10) % den, den, nd - 1)

RECURSIVE Rest(_, _, _)
Rest(r, den, nd) ==
    IF nd = 0 THEN r ELSE Rest((r * 10) % den, den, nd - 1)

\* "%f" of a float: a rational becomes its decimal numeral in millionths,
\* rounded to nearest; a trigonometric value is marked as so rounded.
FormatF(c) ==
    IF c[3] = 0
    THEN LET n == Abs(c[1])
             r == n % c[2]
             micro == (n \div c[2]) * 1000000 + Digits(r, c[2], 6)
                      + (IF 2 * Rest(r, c[2], 6) >= c[2] THEN 1 ELSE 0)
         IN  <<(IF c[1] < 0 THEN -micro ELSE micro), 1000000, 0, 0, 0>>
    ELSE <<c[1], c[2], c[3] + 10, c[4], c[5]>>

\* one fprintf call: its format and, for a point, the three floats printed
HeaderLine(id) == [text |-> id, pt |-> <<>>]
PointLine(p) == [text |-> "%f %f %f\n", pt |-> p]

\* the line of text the call leaves in the file
FileLine(l) ==
    IF l.pt = <<>> THEN l
    ELSE [text |-> l.text,
          pt |-> <<FormatF(l.pt[1]), FormatF(l.pt[2]), FormatF(l.pt[3])>>]

gen_point_write_intern(p) == <<PointLine(p)>>

gen_triangle_write_intern(tri) ==
    gen_point_write_intern(tri.P1) \o gen_point_write_intern(tri.P2)
        \o gen_point_write_intern(tri.P3)

\* the split along the other diagonal, (P1,P2,P4) then (P1,P4,P3): not what
\* lines 138-139 do
nodivs_other_diagonal(r) ==
    gen_triangle_write_intern(Triangle(r.P1, r.P2, r.P4))
        \o gen_triangle_write_intern(Triangle(r.P1, r.P4, r.P3))

gen_rectangle_write_nodivs_intern(r) ==
    gen_triangle_write_intern(Triangle(r.P1, r.P2, r.P3))
        \o gen_triangle_write_intern(Triangle(r.P3, r.P2, r.P4))

\* fprintf on outf, one call per line; the return value is never looked at,
\* so a line outf cannot take is lost and the generator goes on.
Fprintf(lines) ==
    IF room = 0
    THEN /\ out' = out
         /\ room' = room
    ELSE LET n == Min(room, Len(lines))
         IN  /\ out' = out \o SubSeq(lines, 1, n)
             /\ room' = room - n

-----------------------------------------------------------------------------
(* The calls.                                                              *)

\* a triangle in the plane z = 0
TheTriangle ==
    Triangle(FxPoint(0, 0, 0), FxPoint(Unit, 0, 0), FxPoint(0, Unit, 0))

\* rectangles: two from gen_rectangle_from_wd and one that is not parallel
\* to the axes, with sides of length 5 and 2
Rects ==
    { gen_rectangle_from_wd(2 * Unit, 2 * Unit),
      gen_rectangle_from_wd(2 * Unit, 4 * Unit),
      Rectangle(FxPoint(Unit, 0, 0), FxPoint(Unit, 0, 2 * Unit),
                FxPoint(4 * Unit, 4 * Unit, 0),
                FxPoint(4 * Unit, 4 * Unit, 2 * Unit)) }

Boxes ==
    { gen_box_from_whd(2 * w * Unit, 2 * h * Unit, 2 * d * Unit) :
        w \in 1..MaxDim, h \in 1..MaxDim, d \in 1..MaxDim }

TriangleCalls == { [fig |-> "triangle", tri |-> TheTriangle] }
RectangleCalls(Divs) ==
    { [fig |-> "rectangle", rect |-> r, ndivs |-> n] : r \in Rects, n \in Divs }
BoxCalls(Bs, Divs) ==
    { [fig |-> "box", box |-> b, ndivs |-> n] : b \in Bs, n \in Divs }

-----------------------------------------------------------------------------
(* gen_rectangle_write_intern.                                             *)

\* the sub-rectangle of cell (ii, jj), lines 155-165
CellRect(r, ndivs, ii, jj) ==
    LET vw == normalize(Add(r.P3, Scale(-Unit, r.P1)))
        vh == normalize(Add(r.P2, Scale(-Unit, r.P1)))
        w  == FDiv(dist(r.P3, r.P1), FromUInt(ndivs))
        h  == FDiv(dist(r.P2, r.P1), FromUInt(ndivs))
        i1 == FromUInt(Wrap(ii + MaxUInt))   \* (float) (i - 1)
        j1 == FromUInt(Wrap(jj + MaxUInt))   \* (float) (j - 1)
        i0 == FromUInt(ii)
        j0 == FromUInt(jj)
        At(a, b) == Add(Add(r.P1, Scale(FMul(a, w), vw)), Scale(FMul(b, h), vh))
    IN  Rectangle(At(i1, j1), At(i1, j0), At(i0, j1), At(i0, j0))

\* six calls where the base is left out for the back left face once more
BoxFacesNoBase(box) ==
    LET p1 == box.top.P1
        p2 == box.top.P2
        p3 == box.top.P3
        p4 == box.top.P4
        p5 == box.bottom.P1
        p6 == box.bottom.P2
        p7 == box.bottom.P3
        p8 == box.bottom.P4
    IN  << Rectangle(p1, p5, p2, p6),
           Rectangle(p3, p7, p1, p5),
           Rectangle(p1, p5, p2, p6),
           Rectangle(p2, p6, p4, p8),
           Rectangle(p4, p8, p3, p7),
           box.top >>

\* the six faces with the base handed over as (p7, p5, p8, p6), its corners
\* P2 and P3 exchanged
BoxFacesBaseTurned(box) ==
    LET p1 == box.top.P1
        p2 == box.top.P2
        p3 == box.top.P3
        p4 == box.top.P4
        p5 == box.bottom.P1
        p6 == box.bottom.P2
        p7 == box.bottom.P3
        p8 == box.bottom.P4
    IN  << Rectangle(p1, p5, p2, p6),
           Rectangle(p3, p7, p1, p5),
           Rectangle(p7, p5, p8, p6),
           Rectangle(p2, p6, p4, p8),
           Rectangle(p4, p8, p3, p7),
           box.top >>

\* the six faces gen_box_write_intern hands over, in its order
BoxFaces(box) ==
    LET p1 == box.top.P1
        p2 == box.top.P2
        p3 == box.top.P3
        p4 == box.top.P4
        p5 == box.bottom.P1
        p6 == box.bottom.P2
        p7 == box.bottom.P3
        p8 == box.bottom.P4
    IN  << Rectangle(p1, p5, p2, p6),
           Rectangle(p3, p7, p1, p5),
           Rectangle(p7, p8, p5, p6),
           Rectangle(p2, p6, p4, p8),
           Rectangle(p4, p8, p3, p7),
           box.top >>

\* what no step of the rectangle and box code touches
SphereBezierSame == UNCHANGED <<verts, normals, cps, patches, MPM, oob>>
ReaderSame == UNCHANGED <<rpos, vec, normv>>

\* gen_triangle_write
TriangleWrite ==
    /\ pc = "start"
    /\ call.fig = "triangle"
    /\ Fprintf(<<HeaderLine("triangle\n")>> \o gen_triangle_write_intern(call.tri))
    /\ pc' = "done"
    /\ UNCHANGED <<call, i, j, k, rect, passed>>
    /\ SphereBezierSame /\ ReaderSame

\* gen_rectangle_write: the header, then gen_rectangle_write_intern is entered
RectangleWrite ==
    /\ pc = "start"
    /\ call.fig = "rectangle"
    /\ Fprintf(<<HeaderLine("rectangle\n")>>)
    /\ rect' = call.rect
    /\ passed' = Append(passed, call.rect)
    /\ i' = 1
    /\ pc' = "rect_i"
    /\ UNCHANGED <<call, j, k>>
    /\ SphereBezierSame /\ ReaderSame

\* gen_box_write: the header
BoxWrite ==
    /\ pc = "start"
    /\ call.fig = "box"
    /\ Fprintf(<<HeaderLine("box\n")>>)
    /\ k' = 1
    /\ pc' = "box"
    /\ UNCHANGED <<call, i, j, rect, passed>>
    /\ SphereBezierSame /\ ReaderSame

\* gen_box_write_intern: the next of the six calls, or the return
BoxFace ==
    /\ pc = "box"
    /\ k <= 6
    /\ rect' = BoxFaces(call.box)[k]
    /\ passed' = Append(passed, BoxFaces(call.box)[k])
    /\ i' = 1
    /\ pc' = "rect_i"
    /\ UNCHANGED <<call, out, room, j, k>>
    /\ SphereBezierSame /\ ReaderSame

BoxReturn ==
    /\ pc = "box"
    /\ k > 6
    /\ pc' = "done"
    /\ UNCHANGED <<call, out, room, i, j, k, rect, passed>>
    /\ SphereBezierSame /\ ReaderSame

\* for (i = 1; i <= ndivs; ...): the test holds, the inner loop starts
RectRow ==
    /\ pc = "rect_i"
    /\ i <= call.ndivs
    /\ j' = 1
    /\ pc' = "rect_j"
    /\ UNCHANGED <<call, out, room, i, k, rect, passed>>
    /\ SphereBezierSame /\ ReaderSame

\* the test fails: gen_rectangle_write_intern returns to its caller
RectReturn ==
    /\ pc = "rect_i"
    /\ ~(i <= call.ndivs)
    /\ IF call.fig = "box"
       THEN /\ k' = k + 1
            /\ pc' = "box"
       ELSE /\ k' = k
            /\ pc' = "done"
    /\ UNCHANGED <<call, out, room, i, j, rect, passed>>
    /\ SphereBezierSame /\ ReaderSame

\* for (j = 1; j <= ndivs; j++): one cell
RectCell ==
    /\ pc = "rect_j"
    /\ j <= call.ndivs
    /\ Fprintf(gen_rectangle_write_nodivs_intern(CellRect(rect, call.ndivs, i, j)))
    /\ j' = Wrap(j + 1)
    /\ UNCHANGED <<call, pc, i, k, rect, passed>>
    /\ SphereBezierSame /\ ReaderSame

\* the inner test fails: i++
RectRowEnd ==
    /\ pc = "rect_j"
    /\ ~(j <= call.ndivs)
    /\ i' = Wrap(i + 1)
    /\ pc' = "rect_i"
    /\ UNCHANGED <<call, out, room, j, k, rect, passed>>
    /\ SphereBezierSame /\ ReaderSame

-----------------------------------------------------------------------------
(* gen_cone_write_intern and gen_cylinder_write_intern.                    *)

\* radius 1, height 2
ConeCalls(Slices, Stacks) ==
    { [fig |-> "cone", rad |-> Unit, height |-> 2 * Unit,
       slices |-> sl, stacks |-> st] : sl \in Slices, st \in Stacks }
CylinderCalls(Slices, Stacks) ==
    { [fig |-> "cylinder", rad |-> Unit, height |-> 2 * Unit,
       slices |-> sl, stacks |-> st] : sl \in Slices, st \in Stacks }

\* "draw top mini cone", lines 452-466
ConeTip(c, ii) ==
    LET st == FromUInt(c.stacks)
        R  == FDiv(c.rad, st)
        H  == FDiv(FMul(c.height, st - Unit), st)
    IN  Triangle(Point(Fx(0), Fx(c.height), Fx(0)),
                 Point(SinTimes(R, ii, c.slices), Fx(H), CosTimes(R, ii, c.slices)),
                 Point(SinTimes(R, ii + 1, c.slices), Fx(H),
                       CosTimes(R, ii + 1, c.slices)))

\* "draw base", lines 469-480
ConeBase(c, ii) ==
    Triangle(Point(SinTimes(c.rad, ii, c.slices), Fx(0),
                   CosTimes(c.rad, ii, c.slices)),
             Point(Fx(0), Fx(0), Fx(0)),
             Point(SinTimes(c.rad, ii + 1, c.slices), Fx(0),
                   CosTimes(c.rad, ii + 1, c.slices)))

\* a side rectangle whose upper corners stay on the ring of the lower ones
ConeSideRectNoTaper(c, ii, jj) ==
    LET st == FromUInt(c.stacks)
        J  == FromUInt(jj)
        y  == FMul(c.height, FDiv(J, st))
        y1 == FMul(c.height, FDiv(J + Unit, st))
        r  == FDiv(FMul(c.rad, st - J), st)
    IN  Rectangle(
          Point(SinTimes(r, ii, c.slices), Fx(y1), CosTimes(r, ii, c.slices)),
          Point(SinTimes(r, ii, c.slices), Fx(y), CosTimes(r, ii, c.slices)),
          Point(SinTimes(r, ii + 1, c.slices), Fx(y1),
                CosTimes(r, ii + 1, c.slices)),
          Point(SinTimes(r, ii + 1, c.slices), Fx(y),
                CosTimes(r, ii + 1, c.slices)))

\* "draw side", lines 484-497
ConeSideRect(c, ii, jj) ==
    LET st == FromUInt(c.stacks)
        J  == FromUInt(jj)
        y  == FMul(c.height, FDiv(J, st))
        y1 == FMul(c.height, FDiv(J + Unit, st))
        r  == FDiv(FMul(c.rad, st - J), st)
        r1 == FDiv(FMul(c.rad, st - J - Unit), st)
    IN  Rectangle(
          Point(SinTimes(r1, ii, c.slices), Fx(y1), CosTimes(r1, ii, c.slices)),
          Point(SinTimes(r, ii, c.slices), Fx(y), CosTimes(r, ii, c.slices)),
          Point(SinTimes(r1, ii + 1, c.slices), Fx(y1),
                CosTimes(r1, ii + 1, c.slices)),
          Point(SinTimes(r, ii + 1, c.slices), Fx(y),
                CosTimes(r, ii + 1, c.slices)))

\* c.stacks - 1, unsigned
ConeSideCount(c) == Wrap(c.stacks + MaxUInt)

OtherSame == UNCHANGED <<k, rect, passed, verts, normals, cps, patches, MPM,
                         oob, rpos, vec, normv>>

\* gen_cone_write: the header
ConeWrite ==
    /\ pc = "start"
    /\ call.fig = "cone"
    /\ Fprintf(<<HeaderLine("cone\n")>>)
    /\ i' = 0
    /\ pc' = "cone_i"
    /\ UNCHANGED <<call, j>>
    /\ OtherSame

\* for (i = 0; i < c.slices; ...): the tip and the base of slice i
ConeSlice ==
    /\ pc = "cone_i"
    /\ i < call.slices
    /\ Fprintf(gen_triangle_write_intern(ConeTip(call, i))
                 \o gen_triangle_write_intern(ConeBase(call, i)))
    /\ j' = 0
    /\ pc' = "cone_j"
    /\ UNCHANGED <<call, i>>
    /\ OtherSame

ConeReturn ==
    /\ pc = "cone_i"
    /\ ~(i < call.slices)
    /\ pc' = "done"
    /\ UNCHANGED <<call, out, room, i, j>>
    /\ OtherSame

\* for (j = 0; j < (c.stacks - 1); j++): one side rectangle
ConeSide ==
    /\ pc = "cone_j"
    /\ j < ConeSideCount(call)
    /\ Fprintf(gen_rectangle_write_nodivs_intern(ConeSideRect(call, i, j)))
    /\ j' = Wrap(j + 1)
    /\ UNCHANGED <<call, pc, i>>
    /\ OtherSame

ConeSliceEnd ==
    /\ pc = "cone_j"
    /\ ~(j < ConeSideCount(call))
    /\ i' = Wrap(i + 1)
    /\ pc' = "cone_i"
    /\ UNCHANGED <<call, out, room, j>>
    /\ OtherSame

\* the points of slice ii on the base and on the top, lines 510-521
CylPiB(c, ii) ==
    Point(SinTimes(c.rad, ii, c.slices), Fx(FDiv(-c.height, 2 * Unit)),
          CosTimes(c.rad, ii, c.slices))
CylPiT(c, ii) ==
    Point(SinTimes(c.rad, ii, c.slices), Fx(FDiv(c.height, 2 * Unit)),
          CosTimes(c.rad, ii, c.slices))

\* Bi and Ti, lines 506-507 and 523-524
CylBase(c, ii) ==
    Triangle(CylPiB(c, ii), Point(Fx(0), Fx(FDiv(-c.height, 2 * Unit)), Fx(0)),
             CylPiB(c, ii + 1))
CylTop(c, ii) ==
    Triangle(Point(Fx(0), Fx(FDiv(c.height, 2 * Unit)), Fx(0)),
             CylPiT(c, ii), CylPiT(c, ii + 1))

\* the side rectangle of stack jj, lines 529-537
CylSideRect(c, ii, jj) ==
    LET dh  == FDiv(c.height, FromUInt(c.stacks))
        y13 == FMul(FromUInt(Wrap(jj + 1)), dh)
        y24 == FMul(FromUInt(jj), dh)
    IN  Rectangle(Add(CylPiB(c, ii), Point(Fx(0), Fx(y13), Fx(0))),
                  Add(CylPiB(c, ii), Point(Fx(0), Fx(y24), Fx(0))),
                  Add(CylPiB(c, ii + 1), Point(Fx(0), Fx(y13), Fx(0))),
                  Add(CylPiB(c, ii + 1), Point(Fx(0), Fx(y24), Fx(0))))

\* gen_cylinder_write: the header
CylinderWrite ==
    /\ pc = "start"
    /\ call.fig = "cylinder"
    /\ Fprintf(<<HeaderLine("cylinder\n")>>)
    /\ i' = 0
    /\ pc' = "cyl_i"
    /\ UNCHANGED <<call, j>>
    /\ OtherSame

\* for (i = 0; i < c.slices; ...): Bi is written
CylSlice ==
    /\ pc = "cyl_i"
    /\ i < call.slices
    /\ Fprintf(gen_triangle_write_intern(CylBase(call, i)))
    /\ j' = 0
    /\ pc' = "cyl_j"
    /\ UNCHANGED <<call, i>>
    /\ OtherSame

CylReturn ==
    /\ pc = "cyl_i"
    /\ ~(i < call.slices)
    /\ pc' = "done"
    /\ UNCHANGED <<call, out, room, i, j>>
    /\ OtherSame

\* for (j = 0; j < c.stacks; j++): one side rectangle
CylSide ==
    /\ pc = "cyl_j"
    /\ j < call.stacks
    /\ Fprintf(gen_rectangle_write_nodivs_intern(CylSideRect(call, i, j)))
    /\ j' = Wrap(j + 1)
    /\ UNCHANGED <<call, pc, i>>
    /\ OtherSame

\* the end of the inner loop without line 540: Ti is not written
CylSliceEndNoTop ==
    /\ pc = "cyl_j"
    /\ ~(j < call.stacks)
    /\ i' = Wrap(i + 1)
    /\ pc' = "cyl_i"
    /\ UNCHANGED <<call, j, out, room>>
    /\ OtherSame

\* the inner loop is over: Ti is written, i++
CylSliceEnd ==
    /\ pc = "cyl_j"
    /\ ~(j < call.stacks)
    /\ Fprintf(gen_triangle_write_intern(CylTop(call, i)))
    /\ i' = Wrap(i + 1)
    /\ pc' = "cyl_i"
    /\ UNCHANGED <<call, j>>
    /\ OtherSame

-----------------------------------------------------------------------------
(* gen_sphere_write_intern.                                                *)

\* radius 2
SphereCalls(Slices, Stacks) ==
    { [fig |-> "sphere", rad |-> 2 * Unit, slices |-> sl, stacks |-> st] :
        sl \in Slices, st \in Stacks }

\* Point(x, y, z) of lines 573-577
SphVert(sph, ii, jj) ==
    Point(SphX(sph.rad, ii, jj), SphY(sph.rad, ii, jj), SphZ(sph.rad, ii, jj))

\* unsigned len = sph.slices * sph.stacks + sph.slices
SphLen(sph) == Wrap(sph.slices * sph.stacks + sph.slices)

\* the four indices read at step ii: of P1, P2, P3, P4
SphIdx(sph, ii) ==
    << ii, Wrap(ii + sph.slices + 1), Wrap(ii + sph.slices), Wrap(ii + 1) >>

\* the values an out-of-range read may yield
Garbage == { Point(Indeterminate(g), Indeterminate(g), Indeterminate(g)) :
               g \in {0, 1} }

\* v[idx], or the point g where v has no such element
VecAt(v, idx, g) == IF idx < Len(v) THEN v[idx + 1] ELSE g

InRange(v, idxs) == \A n \in 1..Len(idxs) : idxs[n] < Len(v)

\* the two triangles of step ii, lines 585-591 and 597-603
SphTriangles(v, sph, ii, g) ==
    LET x  == SphIdx(sph, ii)
        P1 == VecAt(v, x[1], g)
        P2 == VecAt(v, x[2], g)
        P3 == VecAt(v, x[3], g)
        P4 == VecAt(v, x[4], g)
    IN  gen_triangle_write_intern(Triangle(P1, P2, P3))
          \o gen_triangle_write_intern(Triangle(P2, P1, P4))

SphOtherSame == UNCHANGED <<k, rect, passed, cps, patches, MPM, rpos, vec, normv>>

\* gen_sphere_write: the header
SphereWrite ==
    /\ pc = "start"
    /\ call.fig = "sphere"
    /\ Fprintf(<<HeaderLine("sphere\n")>>)
    /\ i' = 0
    /\ pc' = "sph_i"
    /\ UNCHANGED <<call, j, verts, normals, oob>>
    /\ SphOtherSame

\* for (i = 0; i <= sph.stacks; i++)
SphFillRow ==
    /\ pc = "sph_i"
    /\ i <= call.stacks
    /\ j' = 0
    /\ pc' = "sph_j"
    /\ UNCHANGED <<call, out, room, i, verts, normals, oob>>
    /\ SphOtherSame

\* for (j = 0; j <= sph.slices; j++): the two push_back
SphFill ==
    /\ pc = "sph_j"
    /\ j <= call.slices
    /\ Len(verts) < MemRoom
    /\ verts' = Append(verts, SphVert(call, i, j))
    /\ normals' = Append(normals, normalize(SphVert(call, i, j)))
    /\ j' = Wrap(j + 1)
    /\ UNCHANGED <<call, pc, out, room, i, oob>>
    /\ SphOtherSame

\* push_back on a full memory throws std::bad_alloc, which nothing catches
SphBadAlloc ==
    /\ pc = "sph_j"
    /\ j <= call.slices
    /\ Len(verts) >= MemRoom
    /\ pc' = "crashed"
    /\ UNCHANGED <<call, out, room, i, j, verts, normals, oob>>
    /\ SphOtherSame

SphFillRowEnd ==
    /\ pc = "sph_j"
    /\ ~(j <= call.slices)
    /\ i' = Wrap(i + 1)
    /\ pc' = "sph_i"
    /\ UNCHANGED <<call, out, room, j, verts, normals, oob>>
    /\ SphOtherSame

\* the grid is filled: "Draws the sphere."
SphFillDone ==
    /\ pc = "sph_i"
    /\ ~(i <= call.stacks)
    /\ i' = 0
    /\ pc' = "sph_geo"
    /\ UNCHANGED <<call, out, room, j, verts, normals, oob>>
    /\ SphOtherSame

\* one step of either loop over i < len, every index in range
SphStep(at, v) ==
    /\ pc = at
    /\ i < SphLen(call)
    /\ InRange(v, SphIdx(call, i))
    /\ Fprintf(SphTriangles(v, call, i, Point(Fx(0), Fx(0), Fx(0))))
    /\ i' = Wrap(i + 1)
    /\ UNCHANGED <<call, pc, j, verts, normals, oob>>
    /\ SphOtherSame

\* a step that reads past the end of the vector and goes on with what it
\* found there
SphStepOOB(at, v) ==
    /\ pc = at
    /\ i < SphLen(call)
    /\ ~InRange(v, SphIdx(call, i))
    /\ \E g \in Garbage : Fprintf(SphTriangles(v, call, i, g))
    /\ oob' = TRUE
    /\ i' = Wrap(i + 1)
    /\ UNCHANGED <<call, pc, j, verts, normals>>
    /\ SphOtherSame

\* a step that reads past the end of the vector and is stopped there (an
\* unmapped page, a checked operator[])
SphStepCrash(at, v) ==
    /\ pc = at
    /\ i < SphLen(call)
    /\ ~InRange(v, SphIdx(call, i))
    /\ oob' = TRUE
    /\ pc' = "crashed"
    /\ UNCHANGED <<call, out, room, i, j, verts, normals>>
    /\ SphOtherSame

SphGeo == SphStep("sph_geo", verts)
SphGeoOOB == SphStepOOB("sph_geo", verts)
SphGeoCrash == SphStepCrash("sph_geo", verts)

\* the first loop is over: the separator
SphGeoDone ==
    /\ pc = "sph_geo"
    /\ ~(i < SphLen(call))
    /\ Fprintf(<<HeaderLine("normals\n")>>)
    /\ i' = 0
    /\ pc' = "sph_nrm"
    /\ UNCHANGED <<call, j, verts, normals, oob>>
    /\ SphOtherSame

SphNrm == SphStep("sph_nrm", normals)
SphNrmOOB == SphStepOOB("sph_nrm", normals)
SphNrmCrash == SphStepCrash("sph_nrm", normals)

SphReturn ==
    /\ pc = "sph_nrm"
    /\ ~(i < SphLen(call))
    /\ pc' = "done"
    /\ UNCHANGED <<call, out, room, i, j, verts, normals, oob>>
    /\ SphOtherSame

-----------------------------------------------------------------------------
(* The Bezier patches.  Control points and the matrices made of them are   *)
(* points of integers; a point of the surface is a point of rationals.     *)

\* const float M[4][4] of gen_bezier_patch_write_intern
BezierM == << <<-1, 3, -3, 1>>,
              <<3, -6, 3, 0>>,
              <<-3, 3, 0, 0>>,
              <<1, 0, 0, 0>> >>

\* sum over I in 0..3 of term(I), on points of integers
Sum4(term(_)) ==
    LET a == term(1)
        b == term(2)
        c == term(3)
        d == term(4)
    IN  << a[1] + b[1] + c[1] + d[1],
           a[2] + b[2] + c[2] + d[2],
           a[3] + b[3] + c[3] + d[3] >>

\* s * A on a point of integers
IScale(s, A) == <<s * A[1], s * A[2], s * A[3]>>

mat_dot_product_MP(M, P, r, c) ==
    LET term(I) == IScale(M[r][I], P[I][c])
    IN  Sum4(term)

\* the sum with P read at [I][r], its row and column exchanged: not what
\* line 97 does
dot_product_PM_turned(P, M, r, c) ==
    LET term(I) == IScale(M[I][c], P[I][r])
    IN  Sum4(term)

mat_dot_product_PM(P, M, r, c) ==
    LET term(I) == IScale(M[I][c], P[r][I])
    IN  Sum4(term)

mult_MP(M, P) ==
    [r \in 1..4 |-> [c \in 1..4 |-> mat_dot_product_MP(M, P, r, c)]]

mult_PM(P, M) ==
    [r \in 1..4 |-> [c \in 1..4 |-> mat_dot_product_PM(P, M, r, c)]]

mult_MPM(M, P) == mult_PM(mult_MP(M, P), M)

\* b * b * ... (e times), 1 for e = 0
RECURSIVE Pow(_, _)
Pow(b, e) == IF e = 0 THEN 1 ELSE b * Pow(b, e - 1)

\* gen_bezier_get_single_point at u = un / D and v = vn / D: the numerators
\* of the point over the denominator D^6 (tmp[j] is over D^3)
gen_bezier_get_single_point(mpm, un, vn, D) ==
    LET tmp(jj) ==
            LET term(c) == IScale(Pow(un, 4 - c) * Pow(D, c - 1), mpm[jj][c])
            IN  Sum4(term)
        row(jj) == IScale(Pow(vn, 4 - jj) * Pow(D, jj - 1), tmp(jj))
    IN  Sum4(row)

\* the float of a numerator over D^6
Rational(n, D) == <<n, Pow(D, 6), 0, 0, 0>>
RationalPoint(N, D) ==
    Point(Rational(N[1], D), Rational(N[2], D), Rational(N[3], D))

\* the rectangle of cell (ii, jj), lines 676-688
BezCellRect(mpm, tess, ii, jj) ==
    LET D  == 4 * tess
        S(un, vn) == RationalPoint(gen_bezier_get_single_point(mpm, un, vn, D), D)
    IN  Rectangle(S(ii, jj - 1), S(ii, jj), S(ii - 1, jj - 1), S(ii - 1, jj))

\* 4 * tessellation, unsigned
BezSteps(tess) == Wrap(4 * tess)

\* a 4 x 4 net of control points over the unit grid, heights 0..2
Net16 ==
    << <<0, 0, 0>>, <<1, 1, 0>>, <<2, 1, 0>>, <<3, 0, 0>>,
       <<0, 0, 1>>, <<1, 2, 1>>, <<2, 1, 1>>, <<3, 1, 1>>,
       <<0, 1, 2>>, <<1, 2, 2>>, <<2, 2, 2>>, <<3, 0, 2>>,
       <<0, 0, 3>>, <<1, 0, 3>>, <<2, 1, 3>>, <<3, 2, 3>> >>

\* the files: what gen_bezier_patch_read finds in them
BezierFiles ==
    { [patches |-> << [n \in 1..16 |-> n - 1] >>, cps |-> Net16],
      [patches |-> << [n \in 1..16 |-> 16 - n], [n \in 1..16 |-> n - 1] >>,
       cps |-> Net16],
      [patches |-> << [n \in 1..16 |-> n] >>, cps |-> Net16],
      [patches |-> << >>, cps |-> << >>] }

BezierCalls(Tess) ==
    { [fig |-> "bezier", file |-> f, tessellation |-> t] :
        f \in BezierFiles, t \in Tess }

\* the values an out-of-range read of cps may yield
GarbageCps == { <<g, g, g>> : g \in {-1, 1} }

\* const struct Point P[4][4], lines 664-669
BezP(cp, idxs, g) ==
    [r \in 1..4 |-> [c \in 1..4 |-> VecAt(cp, idxs[4 * (r - 1) + c], g)]]

BezOtherSame == UNCHANGED <<rect, passed, verts, normals, rpos, vec, normv>>

\* gen_bezier_patch_write: gen_bezier_patch_read, then the header
BezierWrite ==
    /\ pc = "start"
    /\ call.fig = "bezier"
    /\ cps' = call.file.cps
    /\ patches' = call.file.patches
    /\ Fprintf(<<HeaderLine("bezier\n")>>)
    /\ k' = 1
    /\ pc' = "bez_p"
    /\ UNCHANGED <<call, i, j, MPM, oob>>
    /\ BezOtherSame

\* for (patch : patches): gen_bezier_patch_single is entered
BezPatch ==
    /\ pc = "bez_p"
    /\ k <= Len(patches)
    /\ InRange(cps, patches[k])
    /\ MPM' = mult_MPM(BezierM, BezP(cps, patches[k], <<0, 0, 0>>))
    /\ i' = 1
    /\ pc' = "bez_i"
    /\ UNCHANGED <<call, out, room, j, k, cps, patches, oob>>
    /\ BezOtherSame

\* cps[idxs[n]] past the end of cps, and the patch is built of what was there
BezPatchOOB ==
    /\ pc = "bez_p"
    /\ k <= Len(patches)
    /\ ~InRange(cps, patches[k])
    /\ \E g \in GarbageCps : MPM' = mult_MPM(BezierM, BezP(cps, patches[k], g))
    /\ oob' = TRUE
    /\ i' = 1
    /\ pc' = "bez_i"
    /\ UNCHANGED <<call, out, room, j, k, cps, patches>>
    /\ BezOtherSame

\* cps[idxs[n]] past the end of cps, and the read is stopped
BezPatchCrash ==
    /\ pc = "bez_p"
    /\ k <= Len(patches)
    /\ ~InRange(cps, patches[k])
    /\ oob' = TRUE
    /\ pc' = "crashed"
    /\ UNCHANGED <<call, out, room, i, j, k, cps, patches, MPM>>
    /\ BezOtherSame

BezReturn ==
    /\ pc = "bez_p"
    /\ ~(k <= Len(patches))
    /\ pc' = "done"
    /\ UNCHANGED <<call, out, room, i, j, k, cps, patches, MPM, oob>>
    /\ BezOtherSame

\* for (i = 1; i <= 4 * tessellation; ...)
BezRow ==
    /\ pc = "bez_i"
    /\ i <= BezSteps(call.tessellation)
    /\ j' = 1
    /\ pc' = "bez_j"
    /\ UNCHANGED <<call, out, room, i, k, cps, patches, MPM, oob>>
    /\ BezOtherSame

\* gen_bezier_patch_single returns
BezPatchEnd ==
    /\ pc = "bez_i"
    /\ ~(i <= BezSteps(call.tessellation))
    /\ k' = k + 1
    /\ pc' = "bez_p"
    /\ UNCHANGED <<call, out, room, i, j, cps, patches, MPM, oob>>
    /\ BezOtherSame

\* for (j = 1; j <= 4 * tessellation; j++): one cell
BezCell ==
    /\ pc = "bez_j"
    /\ j <= BezSteps(call.tessellation)
    /\ Fprintf(gen_rectangle_write_nodivs_intern(
                 BezCellRect(MPM, call.tessellation, i, j)))
    /\ j' = Wrap(j + 1)
    /\ UNCHANGED <<call, pc, i, k, cps, patches, MPM, oob>>
    /\ BezOtherSame

BezRowEnd ==
    /\ pc = "bez_j"
    /\ ~(j <= BezSteps(call.tessellation))
    /\ i' = Wrap(i + 1)
    /\ pc' = "bez_i"
    /\ UNCHANGED <<call, out, room, j, k, cps, patches, MPM, oob>>
    /\ BezOtherSame

-----------------------------------------------------------------------------
(* gen_model_read, on the file the call has written.                       *)

\* what sscanf returns at the end of its input
EOF == -1

\* fgets(line, 1024, inf): the next line, or <<>> for NULL
Fgets(pos) == IF pos < Len(out) THEN <<FileLine(out[pos + 1])>> ELSE <<>>
\* the position of inf after that fgets
AfterFgets(pos) == IF pos < Len(out) THEN pos + 1 ELSE pos

\* gen_point_read(line, &pt) on pt = Point(0, 0, 0): what sscanf returns
\* and what it leaves in pt.  No line of the file is empty, so sscanf stores
\* three floats or stops at the first thing that is not a number.
gen_point_read(line) ==
    IF line.pt # <<>>
    THEN [ret |-> 3, pt |-> line.pt]
    ELSE [ret |-> 0, pt |-> Point(Fx(0), Fx(0), Fx(0))]

\* the test of the first loop without its strcmp
ReadsVertexNoStrcmp(pos) ==
    /\ Fgets(pos) # <<>>
    /\ gen_point_read(Fgets(pos)[1]).ret # EOF

\* the test of the first while loop
ReadsVertex(pos) ==
    /\ Fgets(pos) # <<>>
    /\ Fgets(pos)[1].text # "normals\n"
    /\ gen_point_read(Fgets(pos)[1]).ret # EOF

\* the test of the second while loop
ReadsNormal(pos) ==
    /\ Fgets(pos) # <<>>
    /\ gen_point_read(Fgets(pos)[1]).ret # EOF

WriterSame == UNCHANGED <<call, out, room, i, j, k, rect, passed, verts,
                          normals, cps, patches, MPM, oob>>

\* fgets(line, 1024, inf); /* Ignore first line */
ReadHeader ==
    /\ pc = "done"
    /\ rpos' = AfterFgets(rpos)
    /\ pc' = "rd_vec"
    /\ UNCHANGED <<vec, normv>>
    /\ WriterSame

ReadVertex ==
    /\ pc = "rd_vec"
    /\ ReadsVertex(rpos)
    /\ vec' = Append(vec, gen_point_read(Fgets(rpos)[1]).pt)
    /\ rpos' = AfterFgets(rpos)
    /\ UNCHANGED <<pc, normv>>
    /\ WriterSame

\* the first loop ends, on the line it has just taken if there was one
ReadVertexEnd ==
    /\ pc = "rd_vec"
    /\ ~ReadsVertex(rpos)
    /\ rpos' = AfterFgets(rpos)
    /\ pc' = "rd_norm"
    /\ UNCHANGED <<vec, normv>>
    /\ WriterSame

ReadNormal ==
    /\ pc = "rd_norm"
    /\ ReadsNormal(rpos)
    /\ normv' = Append(normv, gen_point_read(Fgets(rpos)[1]).pt)
    /\ rpos' = AfterFgets(rpos)
    /\ UNCHANGED <<pc, vec>>
    /\ WriterSame

ReadReturn ==
    /\ pc = "rd_norm"
    /\ ~ReadsNormal(rpos)
    /\ rpos' = AfterFgets(rpos)
    /\ pc' = "rd_done"
    /\ UNCHANGED <<vec, normv>>
    /\ WriterSame

-----------------------------------------------------------------------------
NoRect == Rectangle(FxPoint(0, 0, 0), FxPoint(0, 0, 0),
                    FxPoint(0, 0, 0), FxPoint(0, 0, 0))

Calls == TriangleCalls \cup RectangleCalls(0..MaxDivs)
            \cup BoxCalls(Boxes, 0..MaxDivs)
            \cup ConeCalls(3..MaxSlices, 1..MaxStacks)
            \cup CylinderCalls(3..MaxSlices, 1..MaxStacks)
            \cup SphereCalls(3..MaxSlices, 1..MaxStacks)
            \cup BezierCalls(0..MaxTess)

InitWith(cs, rm) ==
    /\ call \in cs
    /\ room = rm
    /\ pc = "start"
    /\ out = <<>>
    /\ i = 0 /\ j = 0 /\ k = 0
    /\ rect = NoRect
    /\ passed = <<>>
    /\ verts = <<>> /\ normals = <<>>
    /\ cps = <<>> /\ patches = <<>> /\ MPM = <<>>
    /\ oob = FALSE
    /\ rpos = 0 /\ vec = <<>> /\ normv = <<>>

Init == InitWith(Calls, DiskRoom)

\* the generators
GenNext ==
    \/ TriangleWrite
    \/ RectangleWrite
    \/ BoxWrite \/ BoxFace \/ BoxReturn
    \/ RectRow \/ RectReturn \/ RectCell \/ RectRowEnd
    \/ ConeWrite \/ ConeSlice \/ ConeReturn \/ ConeSide \/ ConeSliceEnd
    \/ CylinderWrite \/ CylSlice \/ CylReturn \/ CylSide \/ CylSliceEnd
    \/ SphereWrite \/ SphFillRow \/ SphFill \/ SphFillRowEnd \/ SphFillDone
    \/ SphGeo \/ SphGeoOOB \/ SphGeoCrash \/ SphGeoDone
    \/ SphNrm \/ SphNrmOOB \/ SphNrmCrash \/ SphReturn
    \/ BezierWrite \/ BezPatch \/ BezPatchOOB \/ BezPatchCrash \/ BezReturn
    \/ BezRow \/ BezPatchEnd \/ BezCell \/ BezRowEnd

\* gen_model_read
ReadNext ==
    \/ ReadHeader \/ ReadVertex \/ ReadVertexEnd \/ ReadNormal \/ ReadReturn

Next == GenNext \/ ReadNext

Spec == Init /\ [][Next]_vars

-----------------------------------------------------------------------------
(* The same generators over the whole range of their unsigned parameters,  *)
(* writing to a device that takes no line.  A step is always taken when    *)
(* one is possible: the program runs on its own thread, which nothing      *)
(* stops.                                                                  *)

\* the ends of the range of `unsigned`
UIntEdge == {0, 1, 2, MaxUInt - 1, MaxUInt}

TermCalls ==
    TriangleCalls
        \cup RectangleCalls(UIntEdge)
        \cup BoxCalls({gen_box_from_whd(2 * Unit, 2 * Unit, 2 * Unit)}, UIntEdge)
        \cup ConeCalls(UIntEdge, UIntEdge)
        \cup CylinderCalls(UIntEdge, UIntEdge)
        \cup SphereCalls(UIntEdge, UIntEdge)
        \cup BezierCalls(UIntEdge)

TermInit == InitWith(TermCalls, 0)

TermNext == GenNext \/ SphBadAlloc

TermSpec == TermInit /\ [][TermNext]_vars /\ WF_vars(TermNext)

-----------------------------------------------------------------------------
(* What the claims are stated with.                                        *)

\* the call has ended, by a return or by a crash
Ended == pc \in {"done", "crashed", "rd_vec", "rd_norm", "rd_done"}
\* gen_<fig>_write has returned
Returned == pc \in {"done", "rd_vec", "rd_norm", "rd_done"}

\* the point lines of a triangle given by its corners
TriLines(A, B, C) == <<PointLine(A), PointLine(B), PointLine(C)>>

\* the corner of r at a / n of the way from P1 to P3 and b / n of the way
\* from P1 to P2
GridCorner(r, n, a, b) ==
    LET m1 == Mant(r.P1)
        m2 == Mant(r.P2)
        m3 == Mant(r.P3)
        co(c) == m1[c] + (a * (m3[c] - m1[c])) \div n
                       + (b * (m2[c] - m1[c])) \div n
    IN  FxPoint(co(1), co(2), co(3))

\* the six lines of cell (a, b), a and b from 1
GridCellLines(r, n, a, b) ==
    TriLines(GridCorner(r, n, a - 1, b - 1), GridCorner(r, n, a - 1, b),
             GridCorner(r, n, a, b - 1))
      \o TriLines(GridCorner(r, n, a, b - 1), GridCorner(r, n, a - 1, b),
                  GridCorner(r, n, a, b))

\* C1: when gen_rectangle_write_intern returns from a call with n >= 1, it
\* has appended exactly 2 * n * n triangles (6 * n * n point lines) to the
\* output, and they are, cell by cell in row-major order (i outer, j inner),
\* the triangles (P1, P2, P3) and (P3, P2, P4) of the cell's corners.
C1_Subdivider ==
    (pc = "rect_i" /\ ~(i <= call.ndivs) /\ call.ndivs >= 1) =>
        LET n    == call.ndivs
            base == 1 + (Len(passed) - 1) * 6 * n * n
        IN  /\ Len(out) = base + 6 * n * n
            /\ \A c \in 0..(n * n - 1) :
                 SubSeq(out, base + 6 * c + 1, base + 6 * c + 6)
                   = GridCellLines(rect, n, (c \div n) + 1, (c % n) + 1)

\* the subdivider returns from the rectangle that is not parallel to the axes
C1_Witness ==
    /\ pc = "rect_i" /\ ~(i <= call.ndivs)
    /\ call.ndivs = 2
    /\ call.fig = "rectangle"
    /\ Mant(rect.P1) = <<Unit, 0, 0>>
    /\ Len(out) = 25

-----------------------------------------------------------------------------
\* the number of triangles in a file of one header and point lines only
NTriangles == (Len(out) - 1) \div 3

\* C3: a cylinder call with slices >= 3 and stacks >= 1 writes exactly
\* slices * (1 + 1 + 2 * stacks) triangles: per slice one triangle of the
\* base fan (its apex, the centre of the base, is the second corner), then
\* the 2 * stacks triangles of the side, then one triangle of the top fan
\* (its apex, the centre of the top, is the first corner); 16 triangles for
\* slices = 4 and stacks = 1.
C3_CylinderCount ==
    (call.fig = "cylinder" /\ Returned /\ call.slices >= 3 /\ call.stacks >= 1) =>
        LET per == 3 * (1 + 1 + 2 * call.stacks)
            lo  == Point(Fx(0), Fx(-(call.height \div 2)), Fx(0))
            hi  == Point(Fx(0), Fx(call.height \div 2), Fx(0))
        IN  /\ Len(out) = 1 + call.slices * per
            /\ NTriangles = call.slices * (1 + 1 + 2 * call.stacks)
            /\ (call.slices = 4 /\ call.stacks = 1) => NTriangles = 16
            /\ \A s \in 0..(call.slices - 1) :
                 /\ out[1 + s * per + 2].pt = lo
                 /\ out[1 + (s + 1) * per - 2].pt = hi
                 /\ \A n \in 4..(per - 3) :
                      /\ out[1 + s * per + n].pt[1][3] = 1
                      /\ out[1 + s * per + n].pt[3][3] = 2

\* the cylinder of slices = 4, stacks = 1 has been written
C3_Witness ==
    /\ call.fig = "cylinder" /\ pc = "done"
    /\ call.slices = 4 /\ call.stacks = 1
    /\ Len(out) = 49

\* the planes x = v, y = v, z = v (as <<axis, v>>) that hold the four
\* corners of r
FacePlanes(r) ==
    { <<a, r.P1[a][1]>> : a \in { a \in 1..3 :
          /\ r.P2[a] = r.P1[a] /\ r.P3[a] = r.P1[a] /\ r.P4[a] = r.P1[a] } }

\* the half-extents of the box of the call
HalfW == call.box.top.P4[1][1]
HalfH == call.box.top.P4[2][1]
HalfD == call.box.top.P4[3][1]

\* C4: a box call with n >= 1 hands exactly 6 rectangles to
\* gen_rectangle_write_intern, one in each of the planes x = -w/2,
\* x = +w/2, y = -h/2, y = +h/2, z = -d/2, z = +d/2 (so pairwise distinct),
\* each with four distinct corners, and writes 12 * n * n triangles; for
\* gen_box_from_whd(2, 2, 2) and n = 1 these are 12 triangles whose every
\* coordinate is +1 or -1.
C4_BoxFaces ==
    (call.fig = "box" /\ Returned /\ call.ndivs >= 1) =>
        /\ Len(passed) = 6
        /\ \A f \in 1..6 :
             /\ Cardinality(FacePlanes(passed[f])) = 1
             /\ Cardinality({passed[f].P1, passed[f].P2,
                             passed[f].P3, passed[f].P4}) = 4
        /\ UNION { FacePlanes(passed[f]) : f \in 1..6 }
             = { <<1, -HalfW>>, <<1, HalfW>>, <<2, -HalfH>>, <<2, HalfH>>,
                 <<3, -HalfD>>, <<3, HalfD>> }
        /\ \A f, g \in 1..6 : f # g => passed[f] # passed[g]
        /\ NTriangles = 12 * call.ndivs * call.ndivs
        /\ Len(out) = 1 + 3 * 12 * call.ndivs * call.ndivs
        /\ (call.box = gen_box_from_whd(2 * Unit, 2 * Unit, 2 * Unit)
              /\ call.ndivs = 1) =>
             /\ NTriangles = 12
             /\ \A n \in 2..Len(out) : \A a \in 1..3 :
                  out[n].pt[a] \in {Fx(Unit), Fx(-Unit)}

\* gen_box_from_whd(2, 2, 2) has been written with ndivs = 1
C4_Witness ==
    /\ call.fig = "box" /\ pc = "done"
    /\ call.box = gen_box_from_whd(2 * Unit, 2 * Unit, 2 * Unit)
    /\ call.ndivs = 1
    /\ Len(out) = 37 /\ Len(passed) = 6

\* (B - A) x (C - A) and the dot product, in fixed point
Diff(A, B) == <<B[1][1] - A[1][1], B[2][1] - A[2][1], B[3][1] - A[3][1]>>
Cross(u, v) ==
    << FMul(u[2], v[3]) - FMul(u[3], v[2]),
       FMul(u[3], v[1]) - FMul(u[1], v[3]),
       FMul(u[1], v[2]) - FMul(u[2], v[1]) >>
Dot(u, v) == FMul(u[1], v[1]) + FMul(u[2], v[2]) + FMul(u[3], v[3])

\* the normal of the t-th triangle of the file, and the sum of its corners
TriNormal(t) ==
    Cross(Diff(out[3 * t - 1].pt, out[3 * t].pt),
          Diff(out[3 * t - 1].pt, out[3 * t + 1].pt))
TriCentre(t) ==
    << out[3 * t - 1].pt[1][1] + out[3 * t].pt[1][1] + out[3 * t + 1].pt[1][1],
       out[3 * t - 1].pt[2][1] + out[3 * t].pt[2][1] + out[3 * t + 1].pt[2][1],
       out[3 * t - 1].pt[3][1] + out[3 * t].pt[3][1] + out[3 * t + 1].pt[3][1] >>

\* C5: every triangle (A, B, C) a box call with n >= 1 has written has its
\* normal (B - A) x (C - A) pointing away from the centre of the box (a
\* positive dot product with the vector from the origin to the triangle),
\* and the two triangles of every cell have normals of the same direction.
C5_OutwardWinding ==
    (call.fig = "box" /\ call.ndivs >= 1 /\ pc \in {"box", "done"}) =>
        /\ \A t \in 1..NTriangles : Dot(TriNormal(t), TriCentre(t)) > 0
        /\ \A c \in 1..(NTriangles \div 2) :
             /\ Cross(TriNormal(2 * c - 1), TriNormal(2 * c)) = <<0, 0, 0>>
             /\ Dot(TriNormal(2 * c - 1), TriNormal(2 * c)) > 0

\* a box of unequal sides has been written with ndivs = 2
C5_Witness ==
    /\ call.fig = "box" /\ pc = "done" /\ call.ndivs = 2
    /\ HalfW = Unit /\ HalfH = 2 * Unit /\ HalfD = Unit
    /\ NTriangles = 48

-----------------------------------------------------------------------------
\* the number of the first "normals" line of the file, Len(out) + 1 if none
RECURSIVE NormalsAt(_)
NormalsAt(n) ==
    IF n > Len(out) THEN n
    ELSE IF out[n].text = "normals\n" THEN n ELSE NormalsAt(n + 1)

\* the triplets of the text of lines lo..hi, in their order
Triplets(lo, hi) == [n \in 1..(hi - lo + 1) |-> FileLine(out[lo + n - 1]).pt]

\* C6: when gen_model_read returns from the file of a call that has
\* returned, *vec holds exactly the triplets of the text between the header
\* and the "normals" line (all that follow the header when there is none),
\* in their order, and *norm exactly the triplets after the "normals" line,
\* in their order (none when there is no such line); a triplet is what "%f"
\* has left of the float written.
C6_RoundTrip ==
    pc = "rd_done" =>
        /\ vec = Triplets(2, NormalsAt(1) - 1)
        /\ normv = Triplets(NormalsAt(1) + 1, Len(out))
        /\ Len(vec) + Len(normv) + 1
             + (IF NormalsAt(1) <= Len(out) THEN 1 ELSE 0) = Len(out)

\* a file with a "normals" line has been read; "%f" has rounded a third
C6_Witness ==
    /\ pc = "rd_done"
    /\ call.fig = "sphere"
    /\ Len(vec) = 6 * (call.slices * call.stacks + call.slices)
    /\ Len(normv) = Len(vec)
    /\ vec[1] # out[2].pt

-----------------------------------------------------------------------------
\* C2: a sphere call of slices S and stacks T, when it has ended, has
\* written the header, exactly 2 * (S * T + S) triangles, one "normals"
\* line, and exactly 2 * (S * T + S) triangles more, the k-th of them built
\* from the entries of the grid of the same three indices as the k-th of
\* the first.  (Violated: see SphGeoCrash, SphNrmCrash.)
C2_SphereCounts ==
    (call.fig = "sphere" /\ Ended) =>
        LET L == call.slices * call.stacks + call.slices
        IN  /\ Len(out) = 1 + 6 * L + 1 + 6 * L
            /\ out[2 + 6 * L] = HeaderLine("normals\n")
            /\ \A n \in 2..(1 + 6 * L) :
                 /\ out[n].pt # <<>>
                 /\ out[n + 6 * L + 1].pt # <<>>
                 /\ \A a \in 1..3 :
                      /\ out[n].pt[a][3] = out[n + 6 * L + 1].pt[a][3]
                      /\ out[n].pt[a][4] = out[n + 6 * L + 1].pt[a][4]
                      /\ out[n].pt[a][5] = out[n + 6 * L + 1].pt[a][5]

\* some index of some patch of the file is no index of its control points
BadIndex(f) ==
    \E p \in 1..Len(f.patches) : \E n \in 1..16 : f.patches[p][n] >= Len(f.cps)

\* C7: a Bezier call on a file with a patch index >= the number of control
\* points never reads the control points out of range, writes no triangle,
\* and ends in nothing but a malformed-input error.  (Violated: see
\* BezPatchOOB, BezPatchCrash.)
C7_BezierIndexChecked ==
    (call.fig = "bezier" /\ BadIndex(call.file)) =>
        /\ ~oob
        /\ Len(out) <= 1
        /\ Ended => pc = "malformed"

\* a header and at least one triangle, the point lines in threes, with at
\* most one "normals" line among them
CompleteRecord ==
    /\ Len(out) >= 4
    /\ out[1].pt = <<>>
    /\ LET s == NormalsAt(2)
       IN  /\ (s - 2) % 3 = 0
           /\ s <= Len(out) => (Len(out) - s) % 3 = 0
           /\ \A n \in 2..Len(out) : n # s => out[n].pt # <<>>

\* C8: when a gen_<fig>_write call has ended, its output is empty or a
\* complete record: the header and every triangle of the shape, at least
\* one.  (Violated: ndivs = 0 leaves a header alone.)
C8_NoPartialRecord == Ended => (out = <<>> \/ CompleteRecord)

\* C9: every call ends, whatever its unsigned parameters.  (Violated under
\* TermSpec: i <= ndivs holds for every i when ndivs = 2^Width - 1.)
C9_Terminates == <>(pc \in {"done", "crashed"})

\* C10: a rectangle or box call with ndivs = 0 that returns has written the
\* two triangles of every rectangle handed to gen_rectangle_write_intern,
\* as for ndivs = 1.  (Violated: the loops do not run, nothing is written.)
C10_ZeroDivs ==
    (call.fig \in {"rectangle", "box"} /\ call.ndivs = 0 /\ Returned) =>
        /\ Len(passed) >= 1
        /\ NTriangles = 2 * Len(passed)

-----------------------------------------------------------------------------
\* U^T * mpm * V at u = un / D and v = vn / D, the powers of u on the rows
\* of mpm and the powers of v on its columns: the numerators over D^6
BlendRowsU(mpm, un, vn, D) ==
    LET row(r) ==
            LET term(c) ==
                    IScale(Pow(un, 4 - r) * Pow(D, r - 1)
                             * Pow(vn, 4 - c) * Pow(D, c - 1), mpm[r][c])
            IN  Sum4(term)
    IN  Sum4(row)

\* C11: the points gen_bezier_patch_single gets from
\* gen_bezier_get_single_point(MPM, u, v) are S(u, v) = U^T * MPM * V, the
\* sum over rows r and columns c of u^(3-r) * MPM[r][c] * v^(3-c): the cell
\* just written is the rectangle (S(u, v_), S(u, v), S(u_, v_), S(u_, v)).
\* (Violated: lines 651-659 put the powers of u on the columns of MPM and
\* the powers of v on its rows.)
C11_BlendUtMV ==
    (call.fig = "bezier" /\ pc = "bez_j" /\ j > 1) =>
        LET D == 4 * call.tessellation
            S(un, vn) == RationalPoint(BlendRowsU(MPM, un, vn, D), D)
        IN  SubSeq(out, Len(out) - 5, Len(out))
              = gen_rectangle_write_nodivs_intern(
                  Rectangle(S(i, j - 2), S(i, j - 1),
                            S(i - 1, j - 2), S(i - 1, j - 1)))

-----------------------------------------------------------------------------
\* entry (r, c) of M * P * M^T: the sum over a, b of M[r][a] * P[a][b] * M[c][b]
MPMt(M, P, r, c) ==
    LET outer(a) ==
            LET inner(b) == IScale(M[r][a] * M[c][b], P[a][b])
            IN  Sum4(inner)
    IN  Sum4(outer)

\* the control points a patch may have been built of: those of the file,
\* with any of the values an out-of-range read yields
PatchPs == { BezP(cps, patches[k], g) : g \in GarbageCps \cup {<<0, 0, 0>>} }

\* C12: while gen_bezier_patch_single works on a patch, the matrix mult_MPM
\* has left in MPM is M * P * M^T for the fixed basis matrix M and the
\* control points P of the patch, entry by entry.
C12_MPMt ==
    (pc \in {"bez_i", "bez_j"}) =>
        \E P \in PatchPs :
            \A r \in 1..4 : \A c \in 1..4 :
                MPM[r][c] = MPMt(BezierM, P, r, c)

\* mult_MPM has run on control points that are no symmetric matrix, and
\* has left a matrix that is not symmetric either
C12_Witness ==
    /\ pc = "bez_i"
    /\ ~oob
    /\ MPM = mult_MPM(BezierM, BezP(cps, patches[k], <<0, 0, 0>>))
    /\ BezP(cps, patches[k], <<0, 0, 0>>)[1][2]
         # BezP(cps, patches[k], <<0, 0, 0>>)[2][1]
    /\ MPM[1][2] # MPM[2][1]

-----------------------------------------------------------------------------
\* the point of angle 2 pi idx / slices on the ring of radius rad * a / b at
\* height height * n / b
RingPoint(c, a, n, b, idx) ==
    Point(SinTimes((c.rad * a) \div b, idx, c.slices),
          Fx((c.height * n) \div b),
          CosTimes((c.rad * a) \div b, idx, c.slices))

\* the points of lines lo..hi of the output
PointsOf(lo, hi) == { out[n].pt : n \in lo..hi }

\* C13: a cone call with slices >= 3 and stacks >= 1 that has returned has
\* written 2 * slices * stacks triangles: per slice, in this order, the tip
\* triangle (the apex at height `height`, then two points of the ring of
\* radius rad / stacks at height height * (stacks - 1) / stacks), the base
\* triangle at height 0 (ring of radius rad, the centre its second corner),
\* and stacks - 1 side quads, quad j between the ring of radius
\* rad * (stacks - j) / stacks at height height * j / stacks and the ring of
\* radius rad * (stacks - j - 1) / stacks at height height * (j + 1) / stacks;
\* the upper corners of the last side quad are the ring points of the tip.
C13_ConeStructure ==
    (call.fig = "cone" /\ Returned /\ call.slices >= 3 /\ call.stacks >= 1) =>
        LET T   == call.stacks
            per == 6 * T
        IN  /\ Len(out) = 1 + call.slices * per
            /\ NTriangles = 2 * call.slices * T
            /\ \A s \in 0..(call.slices - 1) :
                 LET b == 1 + s * per
                 IN  /\ out[b + 1].pt = Point(Fx(0), Fx(call.height), Fx(0))
                     /\ out[b + 2].pt = RingPoint(call, 1, T - 1, T, s)
                     /\ out[b + 3].pt = RingPoint(call, 1, T - 1, T, s + 1)
                     /\ out[b + 4].pt = RingPoint(call, T, 0, T, s)
                     /\ out[b + 5].pt = Point(Fx(0), Fx(0), Fx(0))
                     /\ out[b + 6].pt = RingPoint(call, T, 0, T, s + 1)
                     /\ \A q \in 0..(T - 2) :
                          LET lo(x) == RingPoint(call, T - q, q, T, x)
                              up(x) == RingPoint(call, T - q - 1, q + 1, T, x)
                          IN  /\ PointsOf(b + 6 * q + 7, b + 6 * q + 9)
                                   = {up(s), lo(s), up(s + 1)}
                              /\ PointsOf(b + 6 * q + 10, b + 6 * q + 12)
                                   = {up(s + 1), lo(s), lo(s + 1)}
                     /\ T >= 2 =>
                          /\ out[b + 6 * (T - 2) + 7] = out[b + 2]
                          /\ out[b + 6 * (T - 2) + 9] = out[b + 3]

\* a cone of three stacks has been written: two side quads per slice
C13_Witness ==
    /\ call.fig = "cone" /\ pc = "done"
    /\ call.slices = 3 /\ call.stacks = 3
    /\ Len(out) = 1 + 3 * 18

-----------------------------------------------------------------------------
\* C14: at every step of the two drawing loops of a sphere call with
\* slices >= 3 and stacks >= 1, the vectors hold the
\* (stacks + 1) * (slices + 1) entries of the grid and each of the indices
\* i, i + 1, i + slices, i + slices + 1 is less than that number.
\* (Violated whenever slices > stacks: see SphGeoOOB, SphGeoCrash.)
C14_SphereIndices ==
    (/\ call.fig = "sphere" /\ call.slices >= 3 /\ call.stacks >= 1
     /\ pc \in {"sph_geo", "sph_nrm"}
     /\ i < call.slices * call.stacks + call.slices) =>
        LET n == (call.stacks + 1) * (call.slices + 1)
        IN  /\ Len(verts) = n
            /\ Len(normals) = n
            /\ \A x \in {i, i + 1, i + call.slices, i + call.slices + 1} : x < n

=============================================================================
